---- MODULE Spec2Model ----
(***************************************************************************)
(* Model of preprocess-video/scripts/whisker_preprocess.py: the            *)
(* checkpointed split / align / whisker-stage / join pipeline.             *)
(*                                                                         *)
(* Paths are sequences of tokens; "." and "/" are tokens of their own, so  *)
(* that os.path.splitext / basename can be computed as the library does.   *)
(***************************************************************************)
EXTENDS Integers, Sequences, FiniteSets, TLC

\* ---------------------------------------------------------------- bounds
MaxFrames == 2      \* frame counts (metadata and readable) range over 0..MaxFrames
MaxFaults == 1      \* external calls that do not both exit 0 and write their output

\* ------------------------------------------------------- os.path helpers
NoPath == <<>>      \* Python's None where a path is expected

RECURSIVE rfind(_, _, _)
\* str.rfind restricted to p[1..i]: the last index holding token c, 0 if none
rfind(p, c, i) ==
    IF i = 0 THEN 0
    ELSE IF p[i] = c THEN i ELSE rfind(p, c, i - 1)

RECURSIVE firstNonDot(_, _, _)
\* first index in lo..hi-1 whose token is not ".", 0 if none
firstNonDot(p, lo, hi) ==
    IF lo >= hi THEN 0
    ELSE IF p[lo] # "." THEN lo ELSE firstNonDot(p, lo + 1, hi)

\* genericpath._splitext: <<root, ext>>
splitext(p) ==
    LET sepIndex == rfind(p, "/", Len(p))
        dotIndex == rfind(p, ".", Len(p))
    IN  IF dotIndex > sepIndex /\ firstNonDot(p, sepIndex + 1, dotIndex) # 0
        THEN << SubSeq(p, 1, dotIndex - 1), SubSeq(p, dotIndex, Len(p)) >>
        ELSE << p, <<>> >>

\* os.path.basename
basename(p) == SubSeq(p, rfind(p, "/", Len(p)) + 1, Len(p))

\* os.path.split(p)[0]
dirname(p) ==
    LET i == rfind(p, "/", Len(p)) IN IF i = 0 THEN <<>> ELSE SubSeq(p, 1, i - 1)

\* os.path.join(a, b)
join(a, b) == IF a = <<>> THEN b ELSE a \o <<"/">> \o b

\* ------------------------------------------------------------ data model
Side == {"left", "right"}

\* VideoFileData.__attrs_post_init__ applied to a freshly built descriptor
VideoFileData(name, side, eye, nframes) ==
    LET base == splitext(name)[1]
    IN  [ name        |-> name,
          side        |-> side,
          eye         |-> eye,
          nframes     |-> nframes,
          basename    |-> base,
          whiskname   |-> base \o <<".", "whiskers">>,
          measname    |-> base \o <<".", "measurements">>,
          eyecheck    |-> base \o <<"-eye-checkpoint", ".", "csv">>,
          whiskraw    |-> base \o <<"-whisk-raw", ".", "csv">>,
          whiskcheck  |-> base \o <<"-whisk-checkpoint", ".", "csv">>,
          summaryfile |-> base \o <<"-summary", ".", "xlsx">>,
          labelname   |-> splitext(basename(base))[1] ]

\* lines 212-213 with one suffix for both channels
Chunk_OneSuffix(input, output, framecount) ==
    LET ne == splitext(basename(input))
    IN  [ left  |-> join(output, ne[1] \o <<"-left">> \o ne[2]),
          right |-> join(output, ne[1] \o <<"-left">> \o ne[2]),
          start |-> 0,
          stop  |-> framecount ]

\* Chunk built by segment_video
Chunk(input, output, framecount) ==
    LET ne == splitext(basename(input))
    IN  [ left  |-> join(output, ne[1] \o <<"-left">> \o ne[2]),
          right |-> join(output, ne[1] \o <<"-right">> \o ne[2]),
          start |-> 0,
          stop  |-> framecount ]

\* name of the re-encoded copy, __align_timestamps
AlignedName(video) ==
    LET ne == splitext(video) IN ne[1] \o <<"-aligned">> \o ne[2]

\* the recordings the analyst may pass as --input
PlainInput == <<"d", "/", "rec", ".", "avi">>
DottedInput == <<"d", "/", "rec", ".", "1", ".", "avi">>

\* a recording as cv2.VideoCapture sees it: can it be opened, the frame count
\* its container reports, and the number of frames that decode before a read fails
Source(opened, nframes, readable) ==
    [opened |-> opened, nframes |-> nframes, readable |-> readable]

\* a recording whose metadata is right and whose frames all decode
FullSource == Source(TRUE, MaxFrames, MaxFrames)

\* the recordings a run may be given
Recordings ==
    { <<PlainInput, FullSource>>,
      <<PlainInput, Source(TRUE, MaxFrames, MaxFrames - 1)>>,   \* a read fails early
      <<PlainInput, Source(TRUE, MaxFrames - 1, MaxFrames)>>,   \* metadata under-reports
      <<PlainInput, Source(FALSE, 0, 0)>>,                      \* cannot be opened
      <<DottedInput, FullSource>> }                             \* a dot in the stem

ToolOutcomes == [ exit : {0, 1}, wrote : BOOLEAN ]

Nominal == [ exit |-> 0, wrote |-> TRUE ]

\* frame ids 0..k-1 as appended by the split loop
RECURSIVE FrameIds(_)
FrameIds(k) == IF k = 0 THEN <<>> ELSE Append(FrameIds(k - 1), k - 1)

\* ------------------------------------------------------------- variables
VARIABLES
    input,       \* args.input
    src,         \* the source recording as cv2.VideoCapture sees it
    disk,        \* the filesystem: path -> content, for the files present
    KEEP_FILES,  \* the module global, in the main process
    workerKeep,  \* KEEP_FILES as the worker processes see it
    pc,          \* position of main
    cpc,         \* position of each channel pipeline
    vid,         \* the two VideoFileData descriptors
    curframe,    \* split loop counter
    vw,          \* frames written to each cv2.VideoWriter (-1: not open)
    aligned,     \* aligned_l / aligned_r returned by __align_timestamps
    calls,       \* per process: the real invocations of this run, in order
    writes,      \* files written in this run: [by, stage, path]
    err,         \* exception raised in main / in each channel pipeline
    outcome,     \* how the latest run ended
    afterOk,     \* this run follows a successful resume-mode run
    faults,      \* misbehaving external calls so far
    start        \* when this run began: the fault count, each channel's whisker files

vars == << input, src, disk, KEEP_FILES, workerKeep, pc, cpc, vid,
           curframe, vw, aligned, calls, writes, err, outcome, afterOk,
           faults, start >>

Procs == {"main"} \cup Side

NoError == [exc |-> "none", msg |-> <<>>]
IOError(msg) == [exc |-> "IOError", msg |-> msg]
TypeError == [exc |-> "TypeError", msg |-> <<"stat: path should be string, not NoneType">>]

NoVideo == [name |-> NoPath]

EmptyDisk == [q \in {} |-> 0]

\* path.isfile / path.exists
isfile(p) == p \in DOMAIN disk

\* the filesystem after writing content c at path p
Put(d, p, c) == [q \in (DOMAIN d) \cup {p} |-> IF q = p THEN c ELSE d[q]]

W(by, stage, p) == [by |-> by, stage |-> stage, path |-> p]

\* the split pass writes one video and one eye checkpoint for each channel
\* (lines 250-253, 291-292)
SplitStage(s) == IF s = "left" THEN "split-left" ELSE "split-right"

\* one real invocation and the exit status it gave
Call(stage, exit) == [stage |-> stage, exit |-> exit]

\* an external call that is really made with outcome o uses up the fault
\* budget; a call that is not made has no outcome to choose
Charge(invoked, o) ==
    LET c == IF invoked /\ o # Nominal THEN 1 ELSE 0
    IN  /\ invoked \/ o = Nominal
        /\ faults + c <= MaxFaults
        /\ faults' = faults + c

Init ==
    /\ \E r \in Recordings : input = r[1] /\ src = r[2]
    /\ disk = EmptyDisk
    /\ KEEP_FILES = TRUE
    /\ workerKeep = TRUE
    /\ pc = "idle"
    /\ cpc = [s \in Side |-> "idle"]
    /\ vid = [s \in Side |-> NoVideo]
    /\ curframe = 0
    /\ vw = [s \in Side |-> -1]
    /\ aligned = [s \in Side |-> NoPath]
    /\ calls = [p \in Procs |-> <<>>]
    /\ writes = {}
    /\ err = [p \in Procs |-> NoError]
    /\ outcome = "none"
    /\ afterOk = FALSE
    /\ faults = 0
    /\ start = [faults |-> 0, whisker |-> [s \in Side |-> "none"]]

\* ------------------------------------------------------------ main process
\* the descriptors as built at lines 231-232, before any frame is read
Descriptors ==
    LET n     == IF src.opened THEN src.nframes ELSE 0
        chunk == Chunk(input, dirname(input), n)
    IN  [ s \in Side |->
            VideoFileData(IF s = "left" THEN chunk.left ELSE chunk.right,
                          s, [index |-> "list", ids |-> <<>>], n) ]

\* the guard of line 246, for descriptors d under flag keep
SplitSkipped(d, keep) ==
    /\ isfile(d["left"].name) /\ isfile(d["right"].name)
    /\ isfile(d["right"].eyecheck) /\ isfile(d["left"].eyecheck)
    /\ keep

\* pd.read_csv of an eye checkpoint: frameid comes back as a column
read_eye(p) == [index |-> "range", ids |-> disk[p].ids]

\* the whisker artifacts of a channel
WhiskerFiles(v) == {v.whiskname, v.measname, v.whiskraw, v.whiskcheck, v.summaryfile}

\* what a run finds of a channel's whisker artifacts: none of them, the trace
\* and a measurements file that classify has not rewritten, or anything else
WhiskerAtStart(v) ==
    IF WhiskerFiles(v) \cap DOMAIN disk = {} THEN "none"
    ELSE IF /\ isfile(v.whiskname) /\ isfile(v.measname)
            /\ disk[v.measname].level = "measure" THEN "measured"
    ELSE "other"

\* a video file as cv2.VideoWriter creates it (lines 250-253): no frame yet,
\* and not finalised before release()
NewVideo == [frames |-> 0, released |-> FALSE]

\* main up to line 254 (or 296 on the resume path)
StartRun(clean, vwOk) ==
    /\ pc = "idle"
    /\ KEEP_FILES' = ~clean
    /\ afterOk' = (outcome = "ok" /\ KEEP_FILES)
    /\ workerKeep' = TRUE
    /\ outcome' = "running"
    /\ err' = [p \in Procs |-> NoError]
    /\ cpc' = [s \in Side |-> "idle"]
    /\ aligned' = [s \in Side |-> NoPath]
    /\ curframe' = 0
    /\ LET d == Descriptors IN
       IF SplitSkipped(d, ~clean)
       THEN /\ vid' = [s \in Side |-> [d[s] EXCEPT !.eye = read_eye(d[s].eyecheck)]]
            /\ vw' = [s \in Side |-> -1]
            /\ disk' = disk
            /\ calls' = [p \in Procs |-> <<>>]
            /\ writes' = {}
            /\ pc' = "align"
       ELSE /\ vid' = d
            /\ vw' = [s \in Side |-> IF vwOk THEN 0 ELSE -1]
            /\ disk' = IF vwOk
                       THEN Put(Put(disk, d["left"].name, NewVideo),
                                d["right"].name, NewVideo)
                       ELSE disk
            /\ calls' = [p \in Procs |-> IF p = "main" THEN <<Call("split", 0)>> ELSE <<>>]
            /\ writes' = IF vwOk THEN { W("main", SplitStage(s), d[s].name) : s \in Side } ELSE {}
            /\ pc' = "loop"
    /\ start' = [faults |-> faults, whisker |-> [s \in Side |-> WhiskerAtStart(Descriptors[s])]]
    /\ UNCHANGED << input, src, faults >>

\* the condition of line 258 (with the loop guard of line 256)
FrameAvailable ==
    src.opened /\ curframe < src.readable /\ curframe < vid["left"].nframes

\* lines 264-265 with frame ids counted from 1
EyeAppend_FromOne(ids, k) == Append(ids, k + 1)

\* lines 264-265: the row appended in the iteration whose counter is k
EyeAppend(ids, k) == Append(ids, k)

\* one iteration of the split loop, lines 257-272
SplitFrame ==
    /\ pc = "loop"
    /\ FrameAvailable
    /\ vid' = [s \in Side |->
                [vid[s] EXCEPT !.eye.ids = EyeAppend(vid[s].eye.ids, curframe)]]
    /\ vw' = [s \in Side |-> IF vw[s] >= 0 THEN vw[s] + 1 ELSE vw[s]]
    /\ disk' = [q \in DOMAIN disk |->
                 IF \E s \in Side : q = vid[s].name /\ vw[s] >= 0
                 THEN [disk[q] EXCEPT !.frames = @ + 1]
                 ELSE disk[q]]
    /\ curframe' = curframe + 1
    /\ UNCHANGED << input, src, KEEP_FILES, workerKeep, pc, cpc, aligned,
                    calls, writes, err, outcome, afterOk, faults, start >>

\* leaving the loop, lines 279-292: release, build and save the eye tables
SplitEnd ==
    /\ pc = "loop"
    /\ ~FrameAvailable
    /\ vw' = [s \in Side |-> -1]
    /\ vid' = [s \in Side |-> [vid[s] EXCEPT !.eye.index = "frameid"]]
    /\ LET released == [q \in DOMAIN disk |->
                           IF \E s \in Side : q = vid[s].name /\ vw[s] >= 0
                           THEN [disk[q] EXCEPT !.released = TRUE]
                           ELSE disk[q]]
       IN  disk' = Put(Put(released, vid["left"].eyecheck,
                           [ids |-> vid["left"].eye.ids]),
                       vid["right"].eyecheck,
                       [ids |-> vid["right"].eye.ids])
    /\ writes' = writes \cup { W("main", SplitStage(s), vid[s].eyecheck) : s \in Side }
    /\ pc' = "align"
    /\ UNCHANGED << input, src, KEEP_FILES, workerKeep, cpc, curframe,
                    aligned, calls, err, outcome, afterOk, faults, start >>

\* the process is killed during the split pass (lines 256-279): the videos
\* stay as far as they were written, no eye checkpoint is saved
Interrupt ==
    /\ pc = "loop"
    /\ vw' = [s \in Side |-> -1]
    /\ outcome' = "interrupted"
    /\ pc' = "idle"
    /\ UNCHANGED << input, src, disk, KEEP_FILES, workerKeep, cpc, vid, curframe,
                    aligned, calls, writes, err, afterOk, faults, start >>

\* line 323 with the flag inverted
AlignInvoked_FlagInverted(video) == ~(isfile(AlignedName(video)) /\ ~KEEP_FILES)

\* __align_timestamps(video): was ffmpeg run, the filesystem after, the value returned
AlignInvoked(video) == ~(isfile(AlignedName(video)) /\ KEEP_FILES)

AlignDisk(video, o) ==
    IF AlignInvoked(video) /\ o.wrote
    THEN Put(disk, AlignedName(video), [from |-> input])
    ELSE disk

AlignResult(video, o) ==
    IF AlignInvoked(video)
    THEN IF o.exit = 0 THEN AlignedName(video) ELSE NoPath
    ELSE AlignedName(video)

\* an exception leaves main: the run is over
MainRaises(e) ==
    /\ err' = [err EXCEPT !["main"] = e]
    /\ outcome' = "failed"
    /\ pc' = "idle"

PreprocFailed == IOError(<<"Video pre-processing failed on file ">> \o input)

\* lines 298-299 (and 310)
AlignLeft(o) ==
    /\ pc = "align"
    /\ Charge(isfile(vid["left"].name) /\ isfile(vid["right"].name)
               /\ AlignInvoked(vid["left"].name), o)
    /\ IF isfile(vid["left"].name) /\ isfile(vid["right"].name)
       THEN /\ disk' = AlignDisk(vid["left"].name, o)
            /\ aligned' = [aligned EXCEPT !["left"] = AlignResult(vid["left"].name, o)]
            /\ IF AlignInvoked(vid["left"].name)
               THEN /\ calls' = [calls EXCEPT !["main"] = Append(@, Call("align-left", o.exit))]
                    /\ writes' = IF o.wrote
                                 THEN writes \cup {W("main", "align-left", AlignedName(vid["left"].name))}
                                 ELSE writes
               ELSE UNCHANGED << calls, writes >>
            /\ pc' = "align_r"
            /\ UNCHANGED << err, outcome >>
       ELSE /\ MainRaises(PreprocFailed)
            /\ UNCHANGED << disk, aligned, calls, writes >>
    /\ UNCHANGED << input, src, KEEP_FILES, workerKeep, cpc, vid, curframe,
                    vw, afterOk, start >>

\* lines 300-308
AlignRight(o) ==
    /\ pc = "align_r"
    /\ Charge(AlignInvoked(vid["right"].name), o)
    /\ disk' = AlignDisk(vid["right"].name, o)
    /\ aligned' = [aligned EXCEPT !["right"] = AlignResult(vid["right"].name, o)]
    /\ IF AlignInvoked(vid["right"].name)
       THEN /\ calls' = [calls EXCEPT !["main"] = Append(@, Call("align-right", o.exit))]
            /\ writes' = IF o.wrote
                         THEN writes \cup {W("main", "align-right", AlignedName(vid["right"].name))}
                         ELSE writes
       ELSE UNCHANGED << calls, writes >>
    /\ LET al == aligned["left"]
           ar == AlignResult(vid["right"].name, o)
       IN  IF al = NoPath
           THEN MainRaises(TypeError) /\ UNCHANGED vid
           ELSE IF al \notin DOMAIN disk'
           THEN MainRaises(PreprocFailed) /\ UNCHANGED vid
           ELSE IF ar = NoPath
           THEN MainRaises(TypeError) /\ UNCHANGED vid
           ELSE IF ar \notin DOMAIN disk'
           THEN MainRaises(PreprocFailed) /\ UNCHANGED vid
           ELSE /\ vid' = [vid EXCEPT !["left"].name = al, !["right"].name = ar]
                /\ pc' = "dispatch"
                /\ UNCHANGED << err, outcome >>
    /\ UNCHANGED << input, src, KEEP_FILES, workerKeep, cpc, curframe, vw,
                    afterOk, start >>

\* line 109: joblib hands each descriptor to a worker.  A worker that runs in
\* the main process sees main's KEEP_FILES; a spawned worker process imports
\* the module afresh and sees the value assigned at line 46.
Dispatch(wk) ==
    /\ pc = "dispatch"
    /\ wk \in {KEEP_FILES, TRUE}
    /\ workerKeep' = wk
    /\ cpc' = [s \in Side |-> "trace"]
    /\ pc' = "wait"
    /\ UNCHANGED << input, src, disk, KEEP_FILES, vid, curframe, vw, aligned,
                    calls, writes, err, outcome, afterOk, faults, start >>

\* --------------------------------------------------------- channel pipeline
\* extract_whisk_data(video, config) raises e
Raises(s, e) ==
    /\ err' = [err EXCEPT ![s] = e]
    /\ cpc' = [cpc EXCEPT ![s] = "raised"]

\* the artifact whose existence lets a whisker stage be skipped (lines 149, 157, 166, 176)
StageCheck(v, stage) == IF stage = "trace" THEN v.whiskname ELSE v.measname

\* the file a whisker stage writes (its last path argument, lines 142-148)
StageOutput(v, stage) == IF stage = "trace" THEN v.whiskname ELSE v.measname

\* the message of the error raised when the stage fails (lines 193-199)
StageError(v, stage) ==
    IOError(<< CASE stage = "trace"      -> "trace failed on "
                 [] stage = "measure"    -> "measurement failed on "
                 [] stage = "classify"   -> "classifier failed on "
                 [] stage = "reclassify" -> "reclassifier failed on " >> \o v.labelname)

StageInvoked(v, stage) == ~(workerKeep /\ isfile(StageCheck(v, stage)))

\* the returncode never inspected
StageReturn_ExitIgnored(v, stage, o) == 0

\* the returncode the pipeline inspects: real, or faked for a skipped stage
StageReturn(v, stage, o) == IF StageInvoked(v, stage) THEN o.exit ELSE 0

\* calls, disk and writes of one stage of channel s with external outcome o
RunStage(s, stage, o) ==
    LET v == vid[s] IN
    /\ Charge(StageInvoked(v, stage), o)
    /\ IF StageInvoked(v, stage)
       THEN /\ calls' = [calls EXCEPT ![s] = Append(@, Call(stage, o.exit))]
            /\ IF o.wrote
               THEN /\ disk' = Put(disk, StageOutput(v, stage), [level |-> stage])
                    /\ writes' = writes \cup {W(s, stage, StageOutput(v, stage))}
               ELSE UNCHANGED << disk, writes >>
       ELSE UNCHANGED << calls, disk, writes >>

ChanUnchanged ==
    UNCHANGED << input, src, KEEP_FILES, workerKeep, pc, vid, curframe, vw,
                 aligned, outcome, afterOk, start >>

\* lines 149-155, 199
Trace(s, o) ==
    /\ pc = "wait" /\ cpc[s] = "trace"
    /\ RunStage(s, "trace", o)
    /\ IF StageReturn(vid[s], "trace", o) = 0
       THEN cpc' = [cpc EXCEPT ![s] = "measure"] /\ UNCHANGED err
       ELSE Raises(s, StageError(vid[s], "trace"))
    /\ ChanUnchanged

\* lines 157-164, 197
Measure(s, o) ==
    /\ pc = "wait" /\ cpc[s] = "measure"
    /\ RunStage(s, "measure", o)
    /\ IF StageReturn(vid[s], "measure", o) = 0
       THEN cpc' = [cpc EXCEPT ![s] = "classify"] /\ UNCHANGED err
       ELSE Raises(s, StageError(vid[s], "measure"))
    /\ ChanUnchanged

\* lines 166-174, 195
Classify(s, o) ==
    /\ pc = "wait" /\ cpc[s] = "classify"
    /\ RunStage(s, "classify", o)
    /\ IF StageReturn(vid[s], "classify", o) = 0
       THEN cpc' = [cpc EXCEPT ![s] = "reclassify"] /\ UNCHANGED err
       ELSE Raises(s, StageError(vid[s], "classify"))
    /\ ChanUnchanged

ArtifactMissing(v) ==
    IOError(<<"whisker or measurement file was not saved for ">> \o v.name)

\* line 187 looking at the measurements file only
ArtifactsSaved_MeasOnly(v, d) == v.measname \in DOMAIN d

\* line 187: the raw trace and the measurements are both on the filesystem d
ArtifactsSaved(v, d) == v.whiskname \in DOMAIN d /\ v.measname \in DOMAIN d

\* lines 176-193
Reclassify(s, o) ==
    /\ pc = "wait" /\ cpc[s] = "reclassify"
    /\ RunStage(s, "reclassify", o)
    /\ LET v == vid[s] IN
       IF StageReturn(v, "reclassify", o) # 0
       THEN Raises(s, StageError(v, "reclassify"))
       ELSE IF ~ArtifactsSaved(v, disk')
       THEN Raises(s, ArtifactMissing(v))
       ELSE IF ~(v.summaryfile \in DOMAIN disk' /\ workerKeep)
       THEN cpc' = [cpc EXCEPT ![s] = "estimate"] /\ UNCHANGED err
       ELSE cpc' = [cpc EXCEPT ![s] = "done"] /\ UNCHANGED err
    /\ ChanUnchanged

\* the index of the eye table as DataFrame.join sees it: the frame ids after
\* set_index('frameid') (lines 287, 289), the row positions of the RangeIndex
\* that pd.read_csv builds (lines 295-296)
EyeIndex(eye) ==
    IF eye.index = "frameid"
    THEN { eye.ids[i] : i \in DOMAIN eye.ids }
    ELSE { i - 1 : i \in DOMAIN eye.ids }

\* the columns of the eye table: frameid is the index after set_index, an
\* ordinary column in a table that pd.read_csv loaded
EyeColumns(eye) ==
    IF eye.index = "frameid"
    THEN {"total_area", "eye_area"}
    ELSE {"frameid", "total_area", "eye_area"}

\* side.join(video.eye): DataFrame.join defaults to how='left', on the index
Join(side, eye) ==
    [ f \in side |-> IF f \in EyeIndex(eye) THEN "eye" ELSE "NaN" ]

\* the frame ids filter_raw may return: the tracker saw fewer frames than the
\* recording reports, or one more
FilterOutputs == { 0..(MaxFrames - 2), 0..MaxFrames }

\* line 120: is the raw-whisk extractor run
ExtractInvoked(v) == ~(isfile(v.whiskraw) /\ workerKeep)

\* line 124 with the returncode never inspected
ExtractFailed_ExitIgnored(inv, o) == FALSE

\* lines 124-127: the extractor was run and its returncode is not 0
ExtractFailed(inv, o) == inv /\ o.exit # 0

\* estimate_whisking_from_raw_whiskers, lines 118-136: the extractor ends with
\* outcome o; filter_raw returns the frame ids side, or raises when ~ok
Estimate(s, o, ok, side) ==
    /\ pc = "wait" /\ cpc[s] = "estimate"
    /\ LET v        == vid[s]
           inv      == ExtractInvoked(v)
           rawDisk  == IF inv /\ o.wrote THEN Put(disk, v.whiskraw, [level |-> "extract"]) ELSE disk
           rawWrite == IF inv /\ o.wrote THEN {W(s, "extract", v.whiskraw)} ELSE {}
           rawCall  == IF inv THEN <<Call("extract", o.exit)>> ELSE <<>>
           filtered == ~ExtractFailed(inv, o) /\ v.whiskraw \in DOMAIN rawDisk
           c        == (IF inv /\ o # Nominal THEN 1 ELSE 0)
                       + (IF filtered /\ ~ok THEN 1 ELSE 0)
       IN  /\ inv \/ o = Nominal
           /\ filtered \/ ok
           /\ ok \/ side = 0..MaxFrames
           /\ faults + c <= MaxFaults
           /\ faults' = faults + c
           /\ IF ExtractFailed(inv, o)
              THEN /\ Raises(s, IOError(<<"failed to extract from ">> \o v.labelname))
                   /\ calls' = [calls EXCEPT ![s] = @ \o rawCall]
                   /\ disk' = rawDisk
                   /\ writes' = writes \cup rawWrite
              ELSE IF v.whiskraw \notin DOMAIN rawDisk
              THEN /\ Raises(s, [exc |-> "FileNotFoundError", msg |-> v.whiskraw])
                   /\ calls' = [calls EXCEPT ![s] = @ \o rawCall]
                   /\ disk' = rawDisk
                   /\ writes' = writes \cup rawWrite
              ELSE IF ~ok
              THEN /\ Raises(s, [exc |-> "FilterError", msg |-> v.labelname])
                   /\ calls' = [calls EXCEPT ![s] = @ \o rawCall \o <<Call("filter", 1)>>]
                   /\ disk' = rawDisk
                   /\ writes' = writes \cup rawWrite
              ELSE /\ cpc' = [cpc EXCEPT ![s] = "done"]
                   /\ UNCHANGED err
                   /\ calls' = [calls EXCEPT ![s] =
                                   @ \o rawCall \o <<Call("filter", 0), Call("join", 0)>>]
                   /\ disk' = Put(Put(rawDisk, v.whiskcheck, [ids |-> side]),
                                  v.summaryfile,
                                  [rows |-> Join(side, v.eye)])
                   /\ writes' = writes \cup rawWrite
                                 \cup {W(s, "join", v.whiskcheck), W(s, "join", v.summaryfile)}
    /\ ChanUnchanged

\* line 109 with a result list handed back once any task has returned
AllReturned_AnyReturned == \E s \in Side : cpc[s] = "done"

\* line 109: Parallel hands back the result list when every task has returned
AllReturned == \A s \in Side : cpc[s] = "done"

\* line 109-110: every channel returned, the result is printed
Collect ==
    /\ pc = "wait"
    /\ AllReturned
    /\ outcome' = "ok"
    /\ pc' = "idle"
    /\ UNCHANGED << input, src, disk, KEEP_FILES, workerKeep, cpc, vid,
                    curframe, vw, aligned, calls, writes, err, afterOk, faults, start >>

\* line 109: a channel raised; Parallel re-raises it in main and the batch ends
Abort(s) ==
    /\ pc = "wait"
    /\ cpc[s] = "raised"
    /\ err' = [err EXCEPT !["main"] = err[s]]
    /\ outcome' = "failed"
    /\ pc' = "idle"
    /\ UNCHANGED << input, src, disk, KEEP_FILES, workerKeep, cpc, vid,
                    curframe, vw, aligned, calls, writes, afterOk, faults, start >>

Next ==
    \/ \E clean \in BOOLEAN, vwOk \in (IF src.opened THEN {TRUE} ELSE BOOLEAN) :
          StartRun(clean, vwOk)
    \/ SplitFrame
    \/ SplitEnd
    \/ \E o \in ToolOutcomes : AlignLeft(o)
    \/ \E o \in ToolOutcomes : AlignRight(o)
    \/ \E wk \in BOOLEAN : Dispatch(wk)
    \/ \E s \in Side, o \in ToolOutcomes : Trace(s, o)
    \/ \E s \in Side, o \in ToolOutcomes : Measure(s, o)
    \/ \E s \in Side, o \in ToolOutcomes : Classify(s, o)
    \/ \E s \in Side, o \in ToolOutcomes : Reclassify(s, o)
    \/ \E s \in Side, o \in ToolOutcomes, ok \in BOOLEAN, side \in FilterOutputs :
          Estimate(s, o, ok, side)
    \/ Collect
    \/ \E s \in Side : Abort(s)

Spec == Init /\ [][Next]_vars

\* the same program, run on the full recording under the plain name only
InitFull ==
    /\ Init
    /\ input = PlainInput
    /\ src = FullSource

SpecFull == InitFull /\ [][Next]_vars

\* the same program when a run may also be killed during the split pass
NextInterrupted == Next \/ Interrupt

SpecInterrupted == Init /\ [][NextInterrupted]_vars

\* ------------------------------------------------------------- properties
WhiskerStages == <<"trace", "measure", "classify", "reclassify">>

AllStages == WhiskerStages \o <<"extract", "filter", "join">>

\* the stage names of a sequence of calls
Stages(c) == [i \in DOMAIN c |-> c[i].stage]

Invoked(p, stage) == \E i \in DOMAIN calls[p] : calls[p][i].stage = stage

\* position of a stage in extract_whisk_data
StageRank(stage) ==
    CASE stage = "trace" -> 1 [] stage = "measure" -> 2 [] stage = "classify" -> 3
      [] stage = "reclassify" -> 4 [] OTHER -> 5

\* number of stages a channel has gone through without raising
Passed(s) ==
    CASE cpc[s] = "measure" -> 1 [] cpc[s] = "classify" -> 2
      [] cpc[s] = "reclassify" -> 3 [] cpc[s] = "estimate" -> 4
      [] cpc[s] = "done" -> 7 [] OTHER -> 0

\* the channel a file was written for
WrittenFor(w) ==
    IF w.by \in Side THEN w.by
    ELSE IF w.stage \in {"split-left", "align-left"} THEN "left" ELSE "right"

\* C1: in a resume-mode run of a channel whose .whiskers and .measurements
\* files exist at the start while classify has not yet rewritten the
\* measurements, trace and measure are skipped and classify is invoked.
C1_ResumeSkipsTraceMeasureInvokesClassify ==
    \A s \in Side :
        ( /\ KEEP_FILES
          /\ cpc[s] \in {"reclassify", "estimate", "done"}
          /\ start.whisker[s] = "measured" )
        => ( /\ ~Invoked(s, "trace")
             /\ ~Invoked(s, "measure")
             /\ Invoked(s, "classify") )

\* C2: in a resume-mode run that starts with none of the channel's whisker
\* artifacts on disk and in which every external tool exits 0 and writes its
\* output, trace, measure, classify and reclassify are each invoked exactly
\* once, in that order, before the joiner runs.
C2_FreshResumeRunsAllFourStages ==
    \A s \in Side :
        ( /\ KEEP_FILES
          /\ cpc[s] \in {"estimate", "done"}
          /\ faults = start.faults
          /\ start.whisker[s] = "none" )
        => ( /\ Len(calls[s]) >= 4
             /\ SubSeq(Stages(calls[s]), 1, 4) = WhiskerStages )

\* C3: in force-clean mode every stage (split, both re-encodes, and for each
\* channel trace, measure, classify, reclassify, raw-whisk extraction and
\* join) is really invoked whatever artifacts exist; none is synthesized.
C3_CleanInvokesEveryStage ==
    (~KEEP_FILES /\ outcome # "none")
    => /\ pc \in {"dispatch", "wait"}
          => Stages(calls["main"]) = <<"split", "align-left", "align-right">>
       /\ \A s \in Side :
             Passed(s) > 0 => Stages(calls[s]) = SubSeq(AllStages, 1, Passed(s))

\* C4: a resume-mode run that follows a fully successful resume-mode run
\* invokes no external stage, does not run the split pass, writes no file and
\* leaves every artifact on disk as it was.
C4_SecondResumeRunIsNoOp ==
    (afterOk /\ KEEP_FILES)
    => /\ \A p \in Procs : calls[p] = <<>>
       /\ writes = {}
       /\ \A p \in Procs : err[p] = NoError
       /\ pc = "idle" => outcome = "ok"

\* a second resume-mode run has run to its end after a successful one
C4_Witness ==
    afterOk /\ KEEP_FILES /\ pc = "idle" /\ outcome = "ok"

\* C5: when one of the four whisker stages is invoked for a channel and exits
\* non-zero, the channel's pipeline raises at once: no later stage and no
\* joiner step is invoked for it, and the run writes no later-stage artifact
\* of that channel (raw-whisk, filtered-whisk and summary tables included).
C5_FailedStageHalts ==
    \A s \in Side : \A i \in DOMAIN calls[s] :
        (StageRank(calls[s][i].stage) <= 4 /\ calls[s][i].exit # 0)
        => /\ i = Len(calls[s])
           /\ cpc[s] = "raised"
           /\ \A w \in writes :
                 w.by = s => StageRank(w.stage) <= StageRank(calls[s][i].stage)
           /\ \A w \in writes :
                 w.path \notin {vid[s].whiskraw, vid[s].whiskcheck, vid[s].summaryfile}

\* classify was really invoked for a channel and exited non-zero
C5_Witness ==
    \E s \in Side :
        /\ cpc[s] = "raised"
        /\ Len(calls[s]) > 0
        /\ calls[s][Len(calls[s])] = Call("classify", 1)

\* C6: when a whisker stage fails for a channel the error raised names that
\* stage and that channel and no other, and the stage was tried once.
C6_ErrorNamesStageAndChannel ==
    \A s \in Side :
        ( /\ cpc[s] = "raised"
          /\ Len(calls[s]) > 0
          /\ StageRank(calls[s][Len(calls[s])].stage) <= 4
          /\ calls[s][Len(calls[s])].exit # 0 )
        => /\ \A s2 \in Side : \A i \in 1..4 :
                 err[s] = StageError(vid[s2], WhiskerStages[i])
                 => (s2 = s /\ WhiskerStages[i] = calls[s][Len(calls[s])].stage)
           /\ Cardinality({ i \in DOMAIN calls[s] :
                 calls[s][i].stage = calls[s][Len(calls[s])].stage }) = 1

\* C7: the summary table written for a channel has a row for a frame id only
\* if the id is in both the filtered-whisk table and the eye-metric table.
C7_SummaryIsInnerJoin ==
    \A s \in Side :
        (cpc[s] = "done" /\ W(s, "join", vid[s].summaryfile) \in writes)
        => DOMAIN disk[vid[s].summaryfile].rows
             \subseteq (disk[vid[s].whiskcheck].ids \cap EyeIndex(vid[s].eye))

\* C8: a completed split pass over a recording whose metadata reports N frames
\* leaves, for both channels, an eye-metric table of exactly N rows with frame
\* ids 0..N-1 in increasing order, also when a read fails before frame N.
C8_SplitYieldsNRows ==
    ( /\ src.opened
      /\ Invoked("main", "split")
      /\ pc # "loop" )
    => \A s \in Side :
          /\ vid[s].eyecheck \in DOMAIN disk
          /\ disk[vid[s].eyecheck].ids = FrameIds(src.nframes)

\* C9: when the source recording cannot be opened the split fails with a
\* source-unreadable error: no eye checkpoint is written, no re-encoder is
\* invoked and no descriptors reach the batch scheduler.
C9_UnopenableSourceFailsCleanly ==
    (~src.opened /\ outcome # "none")
    => /\ \A w \in writes : \A s \in Side : w.path # vid[s].eyecheck
       /\ ~Invoked("main", "align-left") /\ ~Invoked("main", "align-right")
       /\ pc \notin {"dispatch", "wait"}
       /\ pc = "idle" => err["main"].exc = "SourceUnreadable"

\* C10: when the re-encoder exits non-zero for either channel, the split
\* raises its video pre-processing failure error, returns no descriptors and
\* no whisker stage is started.
C10_ReencodeFailureIsPreprocError ==
    ( /\ pc = "idle"
      /\ \E i \in DOMAIN calls["main"] :
            /\ calls["main"][i].stage \in {"align-left", "align-right"}
            /\ calls["main"][i].exit # 0 )
    => /\ err["main"] = PreprocFailed
       /\ \A s \in Side : cpc[s] = "idle" /\ calls[s] = <<>>

\* C11: once a channel's pipeline has raised, the batch never reports a
\* result: the run ends failed with that channel's error; every file written
\* by a channel that had completed is still on disk after the abort, and the
\* step that ends the batch leaves the filesystem as it was.
C11_FanOutFailFast ==
    /\ []( /\ (\E s \in Side : cpc[s] = "raised") => outcome # "ok"
           /\ (pc = "idle" /\ \E s \in Side : cpc[s] = "raised")
              => /\ outcome = "failed"
                 /\ \E s \in Side : cpc[s] = "raised" /\ err["main"] = err[s]
                 /\ \A s \in Side : \A w \in writes :
                       (cpc[s] = "done" /\ w.by = s) => w.path \in DOMAIN disk )
    /\ [][(pc = "wait" /\ pc' = "idle") => disk' = disk]_vars

\* the batch was aborted by one channel after the other had completed and
\* written its summary
C11_Witness ==
    /\ pc = "idle" /\ outcome = "failed"
    /\ \E s, t \in Side :
          /\ cpc[s] = "raised"
          /\ cpc[t] = "done"
          /\ W(t, "join", vid[t].summaryfile) \in writes
          /\ isfile(vid[t].summaryfile)

\* C12: when the raw-whisk extraction exits non-zero, the raw whisker
\* checkpoint cannot be read, or filter_raw fails, the channel's pipeline
\* raises, the error reaches main when the batch ends, and the run writes
\* neither the filtered-whisk checkpoint nor the summary table of the channel.
C12_EstimateFailureWritesNoSummary ==
    \A s \in Side :
        ( \/ \E i \in DOMAIN calls[s] :
                calls[s][i].stage \in {"extract", "filter"} /\ calls[s][i].exit # 0
          \/ err[s].exc = "FileNotFoundError" )
        => /\ cpc[s] = "raised"
           /\ err[s].exc \in {"IOError", "FileNotFoundError", "FilterError"}
           /\ ~Invoked(s, "join")
           /\ \A w \in writes : w.path \notin {vid[s].whiskcheck, vid[s].summaryfile}
           /\ pc = "idle"
              => outcome = "failed" /\ \E t \in Side : err["main"] = err[t]

\* the raw-whisk extractor was run for a channel and exited non-zero
C12_Witness ==
    \E s \in Side :
        /\ cpc[s] = "raised"
        /\ Len(calls[s]) > 0
        /\ calls[s][Len(calls[s])] = Call("extract", 1)
        /\ err[s] = IOError(<<"failed to extract from ">> \o vid[s].labelname)

\* C13: the joiner is entered for a channel only when the four stage outcomes
\* were successful and the .whiskers and .measurements files are both on disk;
\* when the four outcomes were successful (real or synthesized) and one of the
\* two files is absent, the pipeline raises the artifact-missing error and no
\* joiner step runs: no raw-whisk, filtered-whisk or summary file is written.
C13_JoinerNeedsBothArtifacts ==
    \A s \in Side :
        /\ ( cpc[s] \in {"estimate", "done"} \/ Invoked(s, "extract")
             \/ Invoked(s, "filter") \/ Invoked(s, "join") )
           => /\ isfile(vid[s].whiskname) /\ isfile(vid[s].measname)
              /\ \A i \in DOMAIN calls[s] :
                    StageRank(calls[s][i].stage) <= 4 => calls[s][i].exit = 0
        /\ ( /\ cpc[s] = "raised"
             /\ \A i \in DOMAIN calls[s] :
                   StageRank(calls[s][i].stage) <= 4 /\ calls[s][i].exit = 0 )
           => /\ err[s] = ArtifactMissing(vid[s])
              /\ ~ArtifactsSaved(vid[s], disk)
              /\ \A w \in writes :
                    w.path \notin {vid[s].whiskraw, vid[s].whiskcheck, vid[s].summaryfile}

\* a channel raised the artifact-missing error: its trace exited 0 and left
\* no .whiskers file
C13_Witness ==
    \E s \in Side :
        /\ cpc[s] = "raised"
        /\ err[s] = ArtifactMissing(vid[s])
        /\ Invoked(s, "trace")
        /\ ~isfile(vid[s].whiskname)
        /\ isfile(vid[s].measname)

\* C14: on a recording that opens and decodes in full, over any sequence of
\* runs, whenever a resume-mode run skips the split pass, the two channel
\* videos and the two eye checkpoints it accepts are the product of one
\* completed split pass: each video was released by the pass that wrote it and
\* holds as many frames as its channel's eye checkpoint has rows.
C14_SkippedSplitFindsOneCompletePass ==
    (src = FullSource /\ pc = "align" /\ ~Invoked("main", "split"))
    => \A s \in Side :
          /\ disk[vid[s].name].released
          /\ disk[vid[s].name].frames = Len(disk[vid[s].eyecheck].ids)

\* C15: in the split loop, after every completed iteration, both channels'
\* eye tables hold exactly the frame ids 0..curframe-1 in order (the row of
\* iteration k has id k) and both channel videos have been given curframe
\* frames: the four counts equal the frame counter.
C15_SplitLockstep ==
    (pc = "loop" /\ curframe > 0)
    => \A s \in Side :
          /\ vid[s].eye.ids = FrameIds(curframe)
          /\ vw[s] = curframe
          /\ disk[vid[s].name].frames = curframe

\* every frame of the recording has gone through the split loop
C15_Witness ==
    /\ pc = "loop"
    /\ curframe = MaxFrames
    /\ \A s \in Side : Len(vid[s].eye.ids) = MaxFrames /\ vw[s] = MaxFrames

\* C16: on a recording that opens and decodes in full, the aligned video the
\* re-encoder writes for a channel is re-encoded from that channel's own split
\* video: the left re-encode reads rec-left, the right one rec-right.
C16_AlignedComesFromOwnSplitVideo ==
    \A s \in Side :
        LET split == Descriptors[s].name
            stage == IF s = "left" THEN "align-left" ELSE "align-right"
        IN  (src = FullSource /\ W("main", stage, AlignedName(split)) \in writes)
            => disk[AlignedName(split)].from = split

\* C17: under every interleaving of the two channel pipelines the paths
\* written in a run for the left channel (by the split pass, the re-encoder
\* and the left worker) and those written for the right channel are disjoint:
\* no path is written for both channels, so none is written by both workers.
C17_ChannelsWriteDisjointPaths ==
    \A w1, w2 \in writes : w1.path = w2.path => WrittenFor(w1) = WrittenFor(w2)

\* a run that has written all eight files of each channel
C17_Witness ==
    /\ pc = "wait"
    /\ \A s \in Side :
          /\ cpc[s] = "done"
          /\ { w.path : w \in { x \in writes : WrittenFor(x) = s } }
                = WhiskerFiles(vid[s])
                  \cup {vid[s].basename \o <<".", "avi">>, vid[s].name, vid[s].eyecheck}

\* the steps of a channel whose output the next one is derived from
Derivation == <<"trace", "measure", "extract", "join">>

\* C18: on a recording that opens and decodes in full, in a resume-mode run
\* in which every tool exits 0 and writes its output and which ends well for
\* a channel, whenever one of trace, measure, raw-whisk extraction is really
\* invoked for the channel, each later one of them and the join are invoked in
\* the same run too: nothing derived by an earlier run is reused downstream of
\* a regenerated artifact.
C18_RerunPropagatesDownstream ==
    \A s \in Side :
        ( /\ src = FullSource
          /\ KEEP_FILES
          /\ faults = start.faults
          /\ cpc[s] = "done" )
        => \A i, j \in DOMAIN Derivation :
              (i < j /\ Invoked(s, Derivation[i])) => Invoked(s, Derivation[j])

\* C19: the eye table attached to a channel descriptor when the whisker
\* stages start is the table the split pass builds (indexed by frameid, with
\* the columns total_area and eye_area) over the rows of the eye checkpoint,
\* whether this run computed it or loaded it on the resume path; so the
\* joiner adds the same eye columns to the summary in both kinds of run.
C19_EyeTableSameFreshOrLoaded ==
    \A s \in Side :
        (src = FullSource /\ pc \in {"dispatch", "wait"})
        => /\ vid[s].eye = [index |-> "frameid", ids |-> disk[vid[s].eyecheck].ids]
           /\ EyeColumns(vid[s].eye) = {"total_area", "eye_area"}

====
